---- MODULE Spec2Model ----
(***************************************************************************)
(* Terraform provider for NetBox: the IP range and device type resource    *)
(* adapters (Create / Read / Update / Delete) and the VLAN group data      *)
(* source (lookup by filter).                                              *)
(*                                                                         *)
(* One behaviour follows one managed record of one resource kind: the     *)
(* schema.ResourceData `d` the handlers work on, and the NetBox objects of *)
(* that kind (`remote`).  Every handler is one action; the NetBox calls a  *)
(* handler issues answer nondeterministically (success, 404, another API   *)
(* error, a transport error), and another NetBox user may delete the       *)
(* object between two calls of one handler.                                *)
(*                                                                         *)
(* Go values: a nil pointer is <<>>, a pointer to v is <<v>>; an unset     *)
(* schema string reads "" and an unset schema int reads 0, as d.Get does.  *)
(* Tags are left out: their helpers are outside these files and no         *)
(* property below reads them.                                              *)
(***************************************************************************)
EXTENDS Integers, Sequences, FiniteSets, TLC

VARIABLES
    resource,   \* the resource kind this record belongs to
    cfg,        \* the configuration (desired record / filter) of the last Create, Update or lookup
    d,          \* schema.ResourceData: the identifier and the stored fields
    remote,     \* NetBox: [nextID, objects]
    err,        \* the error the last handler returned (Nil for none)
    calls,      \* the NetBox calls the last handler issued, in order, with each call's error
    op          \* the handler (or out-of-band event) of the last step

vars == <<resource, cfg, d, remote, err, calls, op>>

----------------------------------------------------------------------------
(* Bounds *)

\* NetBox assigns object identifiers 1..MaxID; Create is not offered beyond.
MaxID == 2

----------------------------------------------------------------------------
(* strconv *)

Digits == <<"0", "1", "2", "3", "4", "5", "6", "7", "8", "9">>

RECURSIVE FormatInt(_)
\* strconv.FormatInt(n, 10) for n >= 0: the decimal digits, most significant first.
FormatInt(n) ==
    IF n < 10 THEN <<Digits[n + 1]>>
    ELSE FormatInt(n \div 10) \o <<Digits[(n % 10) + 1]>>

DigitValue(c) == CHOOSE i \in 0..9 : Digits[i + 1] = c

RECURSIVE ParseDigits(_, _)
ParseDigits(s, acc) ==
    IF s = <<>> THEN acc ELSE ParseDigits(Tail(s), 10 * acc + DigitValue(Head(s)))

\* id, _ := strconv.ParseInt(d.Id(), 10, 64): the error is dropped, and the
\* value of a failed parse (the empty string) is 0.
ParseInt(s) == IF s = <<>> THEN 0 ELSE ParseDigits(s, 0)

----------------------------------------------------------------------------
(* Errors *)

Nil == [type |-> "nil", code |-> 0, msg |-> ""]

\* The generated client's *...Default response: an API answer with a status code.
Default(c) == [type |-> "Default", code |-> c, msg |-> ""]

\* An error of any other Go type (the request never got an API answer).
Transport == [type |-> "transport", code |-> 0, msg |-> ""]

\* errors.New(msg)
ErrorsNew(m) == [type |-> "errorString", code |-> 0, msg |-> m]

\* What a NetBox call can fail with whatever the state of NetBox is.
Failures == {Default(500), Transport}

Call(name, e) == [call |-> name, err |-> e]

Result(dd, rem, e, cs) == [d |-> dd, remote |-> rem, err |-> e, calls |-> cs]

\* The same results, with the calls `cs` issued before them.
After(cs, results) == {[r EXCEPT !.calls = cs \o r.calls] : r \in results}

----------------------------------------------------------------------------
(* NetBox, one object kind at a time *)

IDs == 1..MaxID

NoObjects == [i \in IDs |-> <<>>]

Exists(rem, id) == id \in IDs /\ rem.objects[id] # <<>>

Object(rem, id) == rem.objects[id][1]

\* POST: the object gets the next identifier.
Created(rem, obj) ==
    [nextID |-> rem.nextID + 1,
     objects |-> [rem.objects EXCEPT ![rem.nextID] = <<obj>>]]

Replaced(rem, id, obj) == [rem EXCEPT !.objects[id] = <<obj>>]

Removed(rem, id) ==
    IF id \in IDs THEN [rem EXCEPT !.objects[id] = <<>>] ELSE rem

\* Between two calls of one handler another NetBox user may delete the object.
Meanwhile(rem, id) == {rem, Removed(rem, id)}

\* GET <kind>/{id}/
ReadCall(rem, id) ==
    (IF Exists(rem, id)
       THEN {[err |-> Nil, payload |-> rem.objects[id]]}
       ELSE {[err |-> Default(404), payload |-> <<>>]})
    \cup {[err |-> e, payload |-> <<>>] : e \in Failures}

\* DELETE <kind>/{id}/
DeleteCall(rem, id) ==
    (IF Exists(rem, id)
       THEN {[err |-> Nil, remote |-> Removed(rem, id)]}
       ELSE {[err |-> Default(404), remote |-> rem]})
    \cup {[err |-> e, remote |-> rem] : e \in Failures}

\* d.SetId(v)
SetId(dd, v) == [dd EXCEPT !.id = v]

----------------------------------------------------------------------------
(* netbox_ip_range *)

resourceNetboxIPRangeStatusOptions == <<"active", "reserved", "deprecated">>

IPRangeStatusDefault == "active"

\* Configurations the caller may write.  Required strings are always given;
\* an optional attribute is absent (<<>>) or given (<<v>>); tenant_id may
\* also be given with the empty value 0.  The scalar attributes come from
\* two records.
IPRangeScalars ==
    {[start_address |-> "10.0.0.1/24", end_address |-> "10.0.0.10/24",
      status |-> <<>>, description |-> <<>>, comments |-> <<>>],
     [start_address |-> "10.0.0.5/24", end_address |-> "10.0.0.20/24",
      status |-> <<"reserved">>, description |-> <<"uplinks">>, comments |-> <<"see ticket">>]}

\* tenant_id, role_id, vrf_id: none given, one given, or all three given.
IPRangeRefs ==
    {r \in [tenant_id : {<<>>, <<0>>, <<1>>},
            role_id   : {<<>>, <<1>>},
            vrf_id    : {<<>>, <<1>>}] :
        Cardinality({k \in {"tenant_id", "role_id", "vrf_id"} : r[k] # <<>>}) \in {0, 1, 3}}

IPRangeConfigs ==
    {[start_address |-> s.start_address,
      end_address   |-> s.end_address,
      status        |-> s.status,
      tenant_id     |-> r.tenant_id,
      role_id       |-> r.role_id,
      vrf_id        |-> r.vrf_id,
      description   |-> s.description,
      comments      |-> s.comments] : s \in IPRangeScalars, r \in IPRangeRefs}

\* validation.StringInSlice(resourceNetboxIPRangeStatusOptions, false)
IPRangeStatusValid(c) ==
    c.status # <<>> =>
        \E i \in DOMAIN resourceNetboxIPRangeStatusOptions :
            resourceNetboxIPRangeStatusOptions[i] = c.status[1]

\* The value d.Get reads for an attribute of the configuration: the given
\* value, else the schema Default, else the zero value of the type.
Given(attr, zero) == IF attr = <<>> THEN zero ELSE attr[1]

\* The ResourceData a Create or Update handler is called with: the planned
\* attributes, and the identifier already stored.
IPRangePlan(id, c) ==
    [id            |-> id,
     start_address |-> c.start_address,
     end_address   |-> c.end_address,
     status        |-> Given(c.status, IPRangeStatusDefault),
     tenant_id     |-> Given(c.tenant_id, 0),
     role_id       |-> Given(c.role_id, 0),
     vrf_id        |-> Given(c.vrf_id, 0),
     description   |-> Given(c.description, ""),
     comments      |-> Given(c.comments, "")]

\* d.GetOk(key) on an int attribute: ok only for a value that is not zero.
GetOkInt(v) == v # 0

\* Mutant of OptionalRef: the pointer is set without looking at ok, so an
\* attribute that is not given goes out as 0.
OptionalRefIgnoringOk(v) == <<v>>

\* if v, ok := d.GetOk(key); ok { data.X = int64ToPtr(int64(v.(int))) }
OptionalRef(v) == IF GetOkInt(v) THEN <<v>> ELSE <<>>

\* getOptionalStr(d, key, true)
getOptionalStr(v) == v

\* models.WritableIPRange as resourceNetboxIPRangeCreate fills it.
IPRangeCreateData(dd) ==
    [StartAddress |-> <<dd.start_address>>,
     EndAddress   |-> <<dd.end_address>>,
     Status       |-> dd.status,
     Description  |-> getOptionalStr(dd.description),
     Comments     |-> "",
     Vrf          |-> <<>>,
     Tenant       |-> <<>>,
     Role         |-> <<>>]

\* models.WritableIPRange as resourceNetboxIPRangeUpdate fills it.
IPRangeUpdateData(dd) ==
    [StartAddress |-> <<dd.start_address>>,
     EndAddress   |-> <<dd.end_address>>,
     Status       |-> dd.status,
     Description  |-> getOptionalStr(dd.description),
     Comments     |-> getOptionalStr(dd.comments),
     Vrf          |-> OptionalRef(dd.vrf_id),
     Tenant       |-> OptionalRef(dd.tenant_id),
     Role         |-> OptionalRef(dd.role_id)]

\* models.IPRange NetBox holds for a payload: a member the payload carries
\* replaces the object's; a nil pointer is not on the wire and leaves the
\* object's member as it is (`old`, or the new object's empty members).
IPRangeWritten(old, data) ==
    [StartAddress |-> IF data.StartAddress = <<>> THEN old.StartAddress ELSE data.StartAddress,
     EndAddress   |-> IF data.EndAddress = <<>> THEN old.EndAddress ELSE data.EndAddress,
     Status       |-> <<data.Status>>,
     Description  |-> data.Description,
     Comments     |-> data.Comments,
     Vrf          |-> IF data.Vrf = <<>> THEN old.Vrf ELSE data.Vrf,
     Tenant       |-> IF data.Tenant = <<>> THEN old.Tenant ELSE data.Tenant,
     Role         |-> IF data.Role = <<>> THEN old.Role ELSE data.Role]

IPRangeBlank ==
    [StartAddress |-> <<>>, EndAddress |-> <<>>, Status |-> <<>>,
     Description |-> "", Comments |-> "",
     Vrf |-> <<>>, Tenant |-> <<>>, Role |-> <<>>]

\* api.Ipam.IpamIPRangesCreate
IpamIPRangesCreate(rem, data) ==
    {[err |-> Nil, id |-> rem.nextID,
      remote |-> Created(rem, IPRangeWritten(IPRangeBlank, data))]}
    \cup {[err |-> e, id |-> 0, remote |-> rem] : e \in Failures}

\* api.Ipam.IpamIPRangesUpdate (PUT)
IpamIPRangesUpdate(rem, id, data) ==
    (IF Exists(rem, id)
       THEN {[err |-> Nil,
              remote |-> Replaced(rem, id, IPRangeWritten(Object(rem, id), data))]}
       ELSE {[err |-> Default(404), remote |-> rem]})
    \cup {[err |-> e, remote |-> rem] : e \in Failures}

\* if p != nil { d.Set(key, p) }
SetIfNotNil(old, p) == IF p # <<>> THEN p[1] ELSE old

\* The d.Set calls of resourceNetboxIPRangeRead on the payload of a read.
IPRangeSetFields(dd, p) ==
    [id            |-> dd.id,
     start_address |-> SetIfNotNil(dd.start_address, p.StartAddress),
     end_address   |-> SetIfNotNil(dd.end_address, p.EndAddress),
     status        |-> SetIfNotNil(dd.status, p.Status),
     vrf_id        |-> SetIfNotNil(dd.vrf_id, p.Vrf),
     description   |-> p.Description,
     comments      |-> p.Comments,
     tenant_id     |-> SetIfNotNil(dd.tenant_id, p.Tenant),
     role_id       |-> SetIfNotNil(dd.role_id, p.Role)]

\* Mutant of ReadError: a 404 is returned like any other error.
ReadErrorWithout404(dd, rem, e, cs) == Result(dd, rem, e, cs)

\* The error branch shared by both Read handlers: a *Default error with
\* code 404 blanks the identifier and is no error; any other error is returned.
ReadError(dd, rem, e, cs) ==
    IF e.type = "Default" /\ e.code = 404
      THEN Result(SetId(dd, <<>>), rem, Nil, cs)
      ELSE Result(dd, rem, e, cs)

resourceNetboxIPRangeRead(dd, rem) ==
    {LET cs == <<Call("read", res.err)>> IN
       IF res.err # Nil
         THEN ReadError(dd, rem, res.err, cs)
         ELSE Result(IPRangeSetFields(dd, res.payload[1]), rem, Nil, cs)
     : res \in ReadCall(rem, ParseInt(dd.id))}

\* Mutant of resourceNetboxIPRangeUpdate: an update call that fails is
\* issued once more.
resourceNetboxIPRangeUpdateRetrying(dd, rem) ==
    UNION {LET cs == <<Call("update", res.err)>> IN
             IF res.err # Nil
               THEN {Result(dd, again.remote, again.err, cs \o <<Call("update", again.err)>>)
                     : again \in IpamIPRangesUpdate(rem, ParseInt(dd.id), IPRangeUpdateData(dd))}
               ELSE UNION {After(cs, resourceNetboxIPRangeRead(dd, rem2))
                           : rem2 \in Meanwhile(res.remote, ParseInt(dd.id))}
           : res \in IpamIPRangesUpdate(rem, ParseInt(dd.id), IPRangeUpdateData(dd))}

resourceNetboxIPRangeUpdate(dd, rem) ==
    UNION {LET cs == <<Call("update", res.err)>> IN
             IF res.err # Nil
               THEN {Result(dd, rem, res.err, cs)}
               ELSE UNION {After(cs, resourceNetboxIPRangeRead(dd, rem2))
                           : rem2 \in Meanwhile(res.remote, ParseInt(dd.id))}
           : res \in IpamIPRangesUpdate(rem, ParseInt(dd.id), IPRangeUpdateData(dd))}

resourceNetboxIPRangeCreate(dd, rem) ==
    UNION {LET cs == <<Call("create", res.err)>> IN
             IF res.err # Nil
               THEN {Result(dd, rem, res.err, cs)}
               ELSE UNION {After(cs, resourceNetboxIPRangeUpdate(SetId(dd, FormatInt(res.id)), rem2))
                           : rem2 \in Meanwhile(res.remote, res.id)}
           : res \in IpamIPRangesCreate(rem, IPRangeCreateData(dd))}

\* Mutant of DeleteError: every API answer blanks the identifier, the status
\* code is not looked at.
DeleteErrorAnyCode(dd, rem, e, cs) ==
    IF e.type = "Default"
      THEN Result(SetId(dd, <<>>), rem, Nil, cs)
      ELSE Result(dd, rem, e, cs)

\* Mutant of resourceNetboxIPRangeDelete: a Delete that NetBox carried out
\* blanks the identifier and a 404 is returned as an error.
resourceNetboxIPRangeDeleteStrict(dd, rem) ==
    {LET cs == <<Call("delete", res.err)>> IN
       IF res.err # Nil
         THEN Result(dd, rem, res.err, cs)
         ELSE Result(SetId(dd, <<>>), res.remote, Nil, cs)
     : res \in DeleteCall(rem, ParseInt(dd.id))}

\* The error branch shared by both Delete handlers.
DeleteError(dd, rem, e, cs) ==
    IF e.type = "Default" /\ e.code = 404
      THEN Result(SetId(dd, <<>>), rem, Nil, cs)
      ELSE Result(dd, rem, e, cs)

resourceNetboxIPRangeDelete(dd, rem) ==
    {LET cs == <<Call("delete", res.err)>> IN
       IF res.err # Nil
         THEN DeleteError(dd, rem, res.err, cs)
         ELSE Result(dd, res.remote, Nil, cs)
     : res \in DeleteCall(rem, ParseInt(dd.id))}

IPRangeNew ==
    [id |-> <<>>, start_address |-> "", end_address |-> "", status |-> "",
     tenant_id |-> 0, role_id |-> 0, vrf_id |-> 0, description |-> "", comments |-> ""]

----------------------------------------------------------------------------
(* netbox_device_type *)

\* u_height in rack units; the schema Default is "1.0".
DeviceTypeUHeightDefault == 1

\* NetBox's own default for a u_height the payload does not carry: the value
\* the schema repeats as its Default.
NetBoxUHeightDefault == DeviceTypeUHeightDefault

\* model, manufacturer_id, slug and part_number come from two records;
\* u_height and is_full_depth are absent, given empty (0, false) or given.
DeviceTypeScalars ==
    {[model |-> "Catalyst 9300", manufacturer_id |-> 1, slug |-> <<>>, part_number |-> <<>>],
     [model |-> "MX480", manufacturer_id |-> 2, slug |-> <<"mx">>, part_number |-> <<"MX480-BASE">>]}

DeviceTypeDimensions ==
    {[u_height |-> <<>>, is_full_depth |-> <<>>],
     [u_height |-> <<0>>, is_full_depth |-> <<FALSE>>],
     [u_height |-> <<2>>, is_full_depth |-> <<TRUE>>],
     [u_height |-> <<2>>, is_full_depth |-> <<>>]}

DeviceTypeConfigs ==
    {[model           |-> s.model,
      manufacturer_id |-> s.manufacturer_id,
      slug            |-> s.slug,
      part_number     |-> s.part_number,
      u_height        |-> m.u_height,
      is_full_depth   |-> m.is_full_depth]
     : s \in DeviceTypeScalars, m \in DeviceTypeDimensions}

DeviceTypeNew ==
    [id |-> <<>>, model |-> "", slug |-> "", manufacturer_id |-> 0,
     part_number |-> "", u_height |-> 0, is_full_depth |-> FALSE]

\* The ResourceData a Create or Update handler is called with.  slug is
\* Optional and Computed: when the configuration leaves it out, the planned
\* value is the one already stored in `prior`.
DeviceTypePlan(prior, c) ==
    [id              |-> prior.id,
     model           |-> c.model,
     slug            |-> Given(c.slug, prior.slug),
     manufacturer_id |-> c.manufacturer_id,
     part_number     |-> Given(c.part_number, ""),
     u_height        |-> Given(c.u_height, DeviceTypeUHeightDefault),
     is_full_depth   |-> Given(c.is_full_depth, FALSE)]

\* getSlug(model): the slug generated from the model name.
getSlug(model) ==
    IF model = "Catalyst 9300" THEN "catalyst-9300"
    ELSE IF model = "MX480" THEN "mx480"
    ELSE "generated"

\* d.GetOk(key) on a string, a float and a bool attribute.
GetOkStr(v) == v # ""
GetOkFloat(v) == v # 0
GetOkBool(v) == v # FALSE

\* The slug of both payloads: the generated slug unless one is given.
DeviceTypeSlug(dd) ==
    IF ~GetOkStr(dd.slug) THEN <<getSlug(dd.model)>> ELSE <<dd.slug>>

\* models.WritableDeviceType as resourceNetboxDeviceTypeCreate fills it.
DeviceTypeCreateData(dd) ==
    [Model        |-> <<dd.model>>,
     Slug         |-> DeviceTypeSlug(dd),
     Manufacturer |-> OptionalRef(dd.manufacturer_id),
     PartNumber   |-> IF GetOkStr(dd.part_number) THEN dd.part_number ELSE "",
     UHeight      |-> IF GetOkFloat(dd.u_height) THEN <<dd.u_height>> ELSE <<>>,
     IsFullDepth  |-> IF GetOkBool(dd.is_full_depth) THEN dd.is_full_depth ELSE FALSE]

\* models.WritableDeviceType as resourceNetboxDeviceTypeUpdate fills it.
DeviceTypeUpdateData(dd) ==
    [Model        |-> <<dd.model>>,
     Slug         |-> DeviceTypeSlug(dd),
     Manufacturer |-> OptionalRef(dd.manufacturer_id),
     PartNumber   |-> IF GetOkStr(dd.part_number) THEN dd.part_number ELSE "",
     UHeight      |-> <<dd.u_height>>,
     IsFullDepth  |-> IF GetOkBool(dd.is_full_depth) THEN dd.is_full_depth ELSE FALSE]

\* models.DeviceType NetBox holds for a payload (see IPRangeWritten).
DeviceTypeWritten(old, data) ==
    [Model        |-> IF data.Model = <<>> THEN old.Model ELSE data.Model,
     Slug         |-> IF data.Slug = <<>> THEN old.Slug ELSE data.Slug,
     Manufacturer |-> IF data.Manufacturer = <<>> THEN old.Manufacturer ELSE data.Manufacturer,
     PartNumber   |-> data.PartNumber,
     UHeight      |-> IF data.UHeight = <<>> THEN old.UHeight ELSE data.UHeight,
     IsFullDepth  |-> data.IsFullDepth]

DeviceTypeBlank ==
    [Model |-> <<>>, Slug |-> <<>>, Manufacturer |-> <<>>, PartNumber |-> "",
     UHeight |-> <<NetBoxUHeightDefault>>, IsFullDepth |-> FALSE]

\* api.Dcim.DcimDeviceTypesCreate: NetBox refuses a device type without manufacturer.
DcimDeviceTypesCreate(rem, data) ==
    (IF data.Manufacturer = <<>>
       THEN {[err |-> Default(400), id |-> 0, remote |-> rem]}
       ELSE {[err |-> Nil, id |-> rem.nextID,
              remote |-> Created(rem, DeviceTypeWritten(DeviceTypeBlank, data))]})
    \cup {[err |-> e, id |-> 0, remote |-> rem] : e \in Failures}

\* api.Dcim.DcimDeviceTypesPartialUpdate (PATCH)
DcimDeviceTypesPartialUpdate(rem, id, data) ==
    (IF Exists(rem, id)
       THEN {[err |-> Nil,
              remote |-> Replaced(rem, id, DeviceTypeWritten(Object(rem, id), data))]}
       ELSE {[err |-> Default(404), remote |-> rem]})
    \cup {[err |-> e, remote |-> rem] : e \in Failures}

\* d.Set(key, p) for a pointer p: the value pointed to, the zero value for nil.
SetPtr(p, zero) == IF p # <<>> THEN p[1] ELSE zero

\* The d.Set calls of resourceNetboxDeviceTypeRead on the payload of a read.
DeviceTypeSetFields(dd, p) ==
    [id              |-> dd.id,
     model           |-> SetPtr(p.Model, ""),
     slug            |-> SetPtr(p.Slug, ""),
     manufacturer_id |-> SetPtr(p.Manufacturer, 0),
     part_number     |-> p.PartNumber,
     u_height        |-> SetPtr(p.UHeight, 0),
     is_full_depth   |-> p.IsFullDepth]

resourceNetboxDeviceTypeRead(dd, rem) ==
    {LET cs == <<Call("read", res.err)>> IN
       IF res.err # Nil
         THEN ReadError(dd, rem, res.err, cs)
         ELSE Result(DeviceTypeSetFields(dd, res.payload[1]), rem, Nil, cs)
     : res \in ReadCall(rem, ParseInt(dd.id))}

\* Mutant of resourceNetboxDeviceTypeCreate: the identifier is taken back
\* when the Read after the create call returns an error.
resourceNetboxDeviceTypeCreateRollingBack(dd, rem) ==
    UNION {LET cs == <<Call("create", res.err)>> IN
             IF res.err # Nil
               THEN {Result(dd, rem, res.err, cs)}
               ELSE UNION {After(cs, {IF r.err = Nil THEN r ELSE [r EXCEPT !.d = SetId(r.d, <<>>)]
                                      : r \in resourceNetboxDeviceTypeRead(SetId(dd, FormatInt(res.id)), rem2)})
                           : rem2 \in Meanwhile(res.remote, res.id)}
           : res \in DcimDeviceTypesCreate(rem, DeviceTypeCreateData(dd))}

resourceNetboxDeviceTypeCreate(dd, rem) ==
    UNION {LET cs == <<Call("create", res.err)>> IN
             IF res.err # Nil
               THEN {Result(dd, rem, res.err, cs)}
               ELSE UNION {After(cs, resourceNetboxDeviceTypeRead(SetId(dd, FormatInt(res.id)), rem2))
                           : rem2 \in Meanwhile(res.remote, res.id)}
           : res \in DcimDeviceTypesCreate(rem, DeviceTypeCreateData(dd))}

resourceNetboxDeviceTypeUpdate(dd, rem) ==
    UNION {LET cs == <<Call("update", res.err)>> IN
             IF res.err # Nil
               THEN {Result(dd, rem, res.err, cs)}
               ELSE UNION {After(cs, resourceNetboxDeviceTypeRead(dd, rem2))
                           : rem2 \in Meanwhile(res.remote, ParseInt(dd.id))}
           : res \in DcimDeviceTypesPartialUpdate(rem, ParseInt(dd.id), DeviceTypeUpdateData(dd))}

resourceNetboxDeviceTypeDelete(dd, rem) ==
    {LET cs == <<Call("delete", res.err)>> IN
       IF res.err # Nil
         THEN DeleteError(dd, rem, res.err, cs)
         ELSE Result(dd, res.remote, Nil, cs)
     : res \in DeleteCall(rem, ParseInt(dd.id))}

----------------------------------------------------------------------------
(* data source netbox_vlan_group *)

\* The Type of the four filter attributes in the data source's schema.
VlanGroupSchemaType ==
    [name |-> "TypeString", slug |-> "TypeString",
     scope_type |-> "TypeString", scope_id |-> "TypeInt"]

\* v, ok := d.Get(key).(string): ok only when d.Get returns a Go string,
\* which it does for a TypeString attribute.
AssertString(key) == VlanGroupSchemaType[key] = "TypeString"

\* VLAN groups other NetBox users may create (models.VLANGroup without ID).
VlanGroupsOffered ==
    {[Name |-> "core", Slug |-> "core", ScopeType |-> "dcim.site", ScopeID |-> 1,
      MinVid |-> 1, MaxVid |-> 4094, VlanCount |-> 3, Description |-> "campus"],
     [Name |-> "core", Slug |-> "core", ScopeType |-> "dcim.site", ScopeID |-> 2,
      MinVid |-> 100, MaxVid |-> 199, VlanCount |-> 0, Description |-> "branch"],
     [Name |-> "edge", Slug |-> "edge", ScopeType |-> "dcim.site", ScopeID |-> 1,
      MinVid |-> 1, MaxVid |-> 4094, VlanCount |-> 1, Description |-> ""]}

\* Filters the schema accepts: at least one of name, slug, scope_type, and
\* scope_id only together with scope_type.
VlanGroupFilters ==
    {f \in [name : {"", "core", "edge"}, slug : {"", "core"},
            scope_type : {"", "dcim.site"}, scope_id : {0, 1, 2}] :
        /\ f.name # "" \/ f.slug # "" \/ f.scope_type # ""
        /\ f.scope_id # 0 => f.scope_type # ""}

\* The ResourceData the data source's Read is called with.
VlanGroupPlan(f) ==
    [id |-> <<>>, name |-> f.name, slug |-> f.slug,
     scope_type |-> f.scope_type, scope_id |-> f.scope_id,
     min_vid |-> 0, max_vid |-> 0, vlan_count |-> 0, description |-> ""]

VlanGroupLimit == 2

\* ipam.IpamVlanGroupsListParams as dataSourceNetboxVlanGroupRead fills it.
\* In the scope_id branch the parameter is set to its own value, nil.
VlanGroupListParams(dd) ==
    LET fresh == [Limit |-> <<VlanGroupLimit>>, Name |-> <<>>, Slug |-> <<>>,
                  ScopeType |-> <<>>, ScopeID |-> <<>>]
    IN [Limit     |-> fresh.Limit,
        Name      |-> IF AssertString("name") /\ dd.name # "" THEN <<dd.name>> ELSE <<>>,
        Slug      |-> IF AssertString("slug") /\ dd.slug # "" THEN <<dd.slug>> ELSE <<>>,
        ScopeType |-> IF AssertString("scope_type") /\ dd.scope_type # ""
                        THEN <<dd.scope_type>> ELSE <<>>,
        ScopeID   |-> IF AssertString("scope_id") /\ dd.scope_id # 0
                        THEN fresh.ScopeID ELSE fresh.ScopeID]

\* A query parameter that is nil does not filter.
Matches(g, params) ==
    /\ params.Name # <<>> => g.Name = params.Name[1]
    /\ params.Slug # <<>> => g.Slug = params.Slug[1]
    /\ params.ScopeType # <<>> => g.ScopeType = params.ScopeType[1]
    /\ params.ScopeID # <<>> => g.ScopeID = params.ScopeID[1]

Matching(rem, params) == {i \in IDs : Exists(rem, i) /\ Matches(Object(rem, i), params)}

RECURSIVE Ascending(_)
\* The identifiers of a set, lowest first.
Ascending(S) ==
    IF S = {} THEN <<>>
    ELSE LET m == CHOOSE x \in S : \A y \in S : x <= y
         IN <<m>> \o Ascending(S \ {m})

Min(a, b) == IF a <= b THEN a ELSE b

\* api.Ipam.IpamVlanGroupsList: Count is the number of matching groups,
\* Results the first Limit of them.
IpamVlanGroupsList(rem, params) ==
    {LET hit == Ascending(Matching(rem, params)) IN
       [err |-> Nil, Count |-> Len(hit),
        Results |-> [k \in 1..Min(Len(hit), params.Limit[1]) |->
                       [ID |-> hit[k], group |-> Object(rem, hit[k])]]]}
    \cup {[err |-> e, Count |-> 0, Results |-> <<>>] : e \in Failures}

ErrAmbiguous == ErrorsNew("more than one vlan group returned, specify a more narrow filter")

ErrNoMatch == ErrorsNew("no vlan group found matching filter")

\* The d.SetId and d.Set calls on the sole result.
VlanGroupSetFields(dd, result) ==
    [dd EXCEPT !.id = FormatInt(result.ID),
               !.name = result.group.Name,
               !.slug = result.group.Slug,
               !.min_vid = result.group.MinVid,
               !.max_vid = result.group.MaxVid,
               !.vlan_count = result.group.VlanCount,
               !.description = result.group.Description]

\* Mutant of dataSourceNetboxVlanGroupRead: the count is compared with the
\* query's limit, so two groups are not ambiguous.
dataSourceNetboxVlanGroupReadOverLimit(dd, rem) ==
    {LET cs == <<Call("list", res.err)>> IN
       IF res.err # Nil THEN Result(dd, rem, res.err, cs)
       ELSE IF res.Count > VlanGroupLimit THEN Result(dd, rem, ErrAmbiguous, cs)
       ELSE IF res.Count = 0 THEN Result(dd, rem, ErrNoMatch, cs)
       ELSE Result(VlanGroupSetFields(dd, res.Results[1]), rem, Nil, cs)
     : res \in IpamVlanGroupsList(rem, VlanGroupListParams(dd))}

dataSourceNetboxVlanGroupRead(dd, rem) ==
    {LET cs == <<Call("list", res.err)>> IN
       IF res.err # Nil THEN Result(dd, rem, res.err, cs)
       ELSE IF res.Count > 1 THEN Result(dd, rem, ErrAmbiguous, cs)
       ELSE IF res.Count = 0 THEN Result(dd, rem, ErrNoMatch, cs)
       ELSE Result(VlanGroupSetFields(dd, res.Results[1]), rem, Nil, cs)
     : res \in IpamVlanGroupsList(rem, VlanGroupListParams(dd))}

----------------------------------------------------------------------------
(* Steps *)

Returns(name, r) ==
    /\ d' = r.d
    /\ remote' = r.remote
    /\ err' = r.err
    /\ calls' = r.calls
    /\ op' = name

\* The SDK calls Create for a record without identifier, and Read, Update
\* and Delete for a record that has one.
IPRangeCreate ==
    /\ resource = "netbox_ip_range"
    /\ d.id = <<>>
    /\ remote.nextID <= MaxID
    /\ \E c \in IPRangeConfigs :
         /\ IPRangeStatusValid(c)
         /\ cfg' = c
         /\ \E r \in resourceNetboxIPRangeCreate(IPRangePlan(d.id, c), remote) :
              Returns("Create", r)
    /\ UNCHANGED resource

IPRangeRead ==
    /\ resource = "netbox_ip_range"
    /\ d.id # <<>>
    /\ \E r \in resourceNetboxIPRangeRead(d, remote) : Returns("Read", r)
    /\ UNCHANGED <<resource, cfg>>

IPRangeUpdate ==
    /\ resource = "netbox_ip_range"
    /\ d.id # <<>>
    /\ \E c \in IPRangeConfigs :
         /\ IPRangeStatusValid(c)
         /\ cfg' = c
         /\ \E r \in resourceNetboxIPRangeUpdate(IPRangePlan(d.id, c), remote) :
              Returns("Update", r)
    /\ UNCHANGED resource

IPRangeDelete ==
    /\ resource = "netbox_ip_range"
    /\ d.id # <<>>
    /\ \E r \in resourceNetboxIPRangeDelete(d, remote) : Returns("Delete", r)
    /\ UNCHANGED <<resource, cfg>>

\* Another NetBox user deletes the object.
OutOfBandDelete ==
    /\ \E id \in IDs :
         /\ Exists(remote, id)
         /\ remote' = Removed(remote, id)
    /\ op' = "OutOfBandDelete"
    /\ calls' = <<>>
    /\ UNCHANGED <<resource, cfg, d, err>>

\* Another NetBox user removes the tenant, the role or the VRF of an IP range.
IPRangeOutOfBandUnassign ==
    /\ resource = "netbox_ip_range"
    /\ \E id \in IDs :
         /\ Exists(remote, id)
         /\ \E o \in {[Object(remote, id) EXCEPT !.Tenant = <<>>],
                      [Object(remote, id) EXCEPT !.Role = <<>>],
                      [Object(remote, id) EXCEPT !.Vrf = <<>>]} :
              /\ o # Object(remote, id)
              /\ remote' = Replaced(remote, id, o)
    /\ op' = "OutOfBandUnassign"
    /\ calls' = <<>>
    /\ UNCHANGED <<resource, cfg, d, err>>

DeviceTypeCreate ==
    /\ resource = "netbox_device_type"
    /\ d.id = <<>>
    /\ remote.nextID <= MaxID
    /\ \E c \in DeviceTypeConfigs :
         /\ cfg' = c
         /\ \E r \in resourceNetboxDeviceTypeCreate(DeviceTypePlan(DeviceTypeNew, c), remote) :
              Returns("Create", r)
    /\ UNCHANGED resource

DeviceTypeRead ==
    /\ resource = "netbox_device_type"
    /\ d.id # <<>>
    /\ \E r \in resourceNetboxDeviceTypeRead(d, remote) : Returns("Read", r)
    /\ UNCHANGED <<resource, cfg>>

DeviceTypeUpdate ==
    /\ resource = "netbox_device_type"
    /\ d.id # <<>>
    /\ \E c \in DeviceTypeConfigs :
         /\ cfg' = c
         /\ \E r \in resourceNetboxDeviceTypeUpdate(DeviceTypePlan(d, c), remote) :
              Returns("Update", r)
    /\ UNCHANGED resource

DeviceTypeDelete ==
    /\ resource = "netbox_device_type"
    /\ d.id # <<>>
    /\ \E r \in resourceNetboxDeviceTypeDelete(d, remote) : Returns("Delete", r)
    /\ UNCHANGED <<resource, cfg>>

\* Another NetBox user creates a VLAN group.
VlanGroupOutOfBandCreate ==
    /\ resource = "netbox_vlan_group"
    /\ remote.nextID <= MaxID
    /\ \E g \in VlanGroupsOffered : remote' = Created(remote, g)
    /\ op' = "OutOfBandCreate"
    /\ calls' = <<>>
    /\ UNCHANGED <<resource, cfg, d, err>>

\* The data source is read anew from its filter on every refresh.
VlanGroupLookup ==
    /\ resource = "netbox_vlan_group"
    /\ \E f \in VlanGroupFilters :
         /\ cfg' = f
         /\ \E r \in dataSourceNetboxVlanGroupRead(VlanGroupPlan(f), remote) :
              Returns("Lookup", r)
    /\ UNCHANGED resource

Resources == {"netbox_ip_range", "netbox_device_type", "netbox_vlan_group"}

Init ==
    /\ resource \in Resources
    /\ cfg = (CASE resource = "netbox_ip_range" -> CHOOSE c \in IPRangeConfigs : TRUE
                [] resource = "netbox_device_type" -> CHOOSE c \in DeviceTypeConfigs : TRUE
                [] OTHER -> CHOOSE f \in VlanGroupFilters : TRUE)
    /\ d = (CASE resource = "netbox_ip_range" -> IPRangeNew
              [] resource = "netbox_device_type" -> DeviceTypeNew
              [] OTHER -> VlanGroupPlan(cfg))
    /\ remote = [nextID |-> 1, objects |-> NoObjects]
    /\ err = Nil
    /\ calls = <<>>
    /\ op = "Init"

Next ==
    \/ IPRangeCreate
    \/ IPRangeRead
    \/ IPRangeUpdate
    \/ IPRangeDelete
    \/ IPRangeOutOfBandUnassign
    \/ DeviceTypeCreate
    \/ DeviceTypeRead
    \/ DeviceTypeUpdate
    \/ DeviceTypeDelete
    \/ OutOfBandDelete
    \/ VlanGroupOutOfBandCreate
    \/ VlanGroupLookup

Spec == Init /\ [][Next]_vars

----------------------------------------------------------------------------
(* Properties *)

Adapter == resource \in {"netbox_ip_range", "netbox_device_type"}

IPRange == resource = "netbox_ip_range"

DeviceType == resource = "netbox_device_type"

NotFound == Default(404)

Last(s) == s[Len(s)]

\* The names of the calls of a handler, in order.
Names(cs) == [i \in 1..Len(cs) |-> cs[i].call]

\* What the Read and Delete handlers of the current resource can return.
ReadOf(dd, rem) ==
    IF IPRange THEN resourceNetboxIPRangeRead(dd, rem)
    ELSE resourceNetboxDeviceTypeRead(dd, rem)

DeleteOf(dd, rem) ==
    IF IPRange THEN resourceNetboxIPRangeDelete(dd, rem)
    ELSE resourceNetboxDeviceTypeDelete(dd, rem)

\* An optional attribute the configuration gives is stored with that value.
Kept(attr, stored) == attr # <<>> => stored = attr[1]

(* ------------------------------- C1 ----------------------------------- *)

\* The groups the list call of the last lookup counted.
Counted == Matching(remote, VlanGroupListParams(VlanGroupPlan(cfg)))

\* C1: a VLAN group lookup whose list call reports 0 groups fails with the
\* not-found error and sets no identifier; one that reports 2 or more fails
\* with the ambiguous-filter error and sets no identifier; one that reports
\* exactly 1 succeeds, the identifier is that group's, and name, slug,
\* min_vid, max_vid, vlan_count and description are that group's values.
C1_LookupByCount ==
    (op = "Lookup" /\ calls[1].err = Nil) =>
        /\ Cardinality(Counted) = 0 => err = ErrNoMatch /\ d.id = <<>>
        /\ Cardinality(Counted) >= 2 => err = ErrAmbiguous /\ d.id = <<>>
        /\ Cardinality(Counted) = 1 =>
             \E i \in Counted :
                 /\ err = Nil
                 /\ d.id = FormatInt(i)
                 /\ ParseInt(d.id) = i
                 /\ d.name = Object(remote, i).Name
                 /\ d.slug = Object(remote, i).Slug
                 /\ d.min_vid = Object(remote, i).MinVid
                 /\ d.max_vid = Object(remote, i).MaxVid
                 /\ d.vlan_count = Object(remote, i).VlanCount
                 /\ d.description = Object(remote, i).Description

\* A lookup found the second of two groups, the only one named "edge".
C1_Witness ==
    /\ op = "Lookup" /\ err = Nil /\ d.id = <<"2">>
    /\ d.name = "edge" /\ d.vlan_count = 1
    /\ Exists(remote, 1)

\* A lookup by slug "core" with two groups of that slug is ambiguous.
C1_WitnessAmbiguous ==
    /\ op = "Lookup" /\ err = ErrAmbiguous /\ d.id = <<>>
    /\ cfg.slug = "core" /\ Cardinality(Counted) = 2

(* ------------------------------- C2 ----------------------------------- *)

\* C2: a Read whose read call is answered 404 returns no error and leaves
\* the identifier empty; a Read whose call fails otherwise returns that
\* error and leaves the identifier and every stored field as they were.
C2_ReadNotFoundOrError ==
    [][(Adapter /\ op' = "Read") =>
          LET e == calls'[1].err IN
          /\ e = NotFound => err' = Nil /\ d'.id = <<>>
          /\ e \notin {Nil, NotFound} => err' = e /\ d' = d]_vars

C2_Witness ==
    /\ DeviceType /\ op = "Read"
    /\ calls = <<Call("read", NotFound)>>
    /\ err = Nil /\ d.id = <<>> /\ d.model # ""

(* ------------------------------- C3 ----------------------------------- *)

\* Delete on the current record, twice: whenever the first succeeds and the
\* second gets an answer from NetBox, the second succeeds too, the
\* identifier is empty and NetBox is as the first Delete left it.
DeleteTwice ==
    (Adapter /\ d.id # <<>>) =>
        \A r1 \in DeleteOf(d, remote) :
            r1.err = Nil =>
                \A r2 \in DeleteOf(r1.d, r1.remote) :
                    r2.calls[1].err \notin Failures =>
                        r2.err = Nil /\ r2.d.id = <<>> /\ r2.remote = r1.remote

\* C3: a Delete answered 404 succeeds, empties the identifier and changes
\* nothing in NetBox; a Delete that NetBox carries out succeeds and the
\* object is gone; a Delete that fails otherwise returns that error and
\* leaves the identifier as it was; so a second Delete succeeds like the
\* first and leaves NetBox as one Delete does.
C3_DeleteIdempotent ==
    /\ []DeleteTwice
    /\ [][(Adapter /\ op' = "Delete") =>
             LET e == calls'[1].err
                 id == ParseInt(d.id)
             IN /\ Len(calls') = 1
                /\ e = NotFound <=> (e \notin Failures /\ ~Exists(remote, id))
                /\ e = NotFound => err' = Nil /\ d'.id = <<>> /\ remote' = remote
                /\ e = Nil => err' = Nil /\ remote' = Removed(remote, id)
                /\ e \notin {Nil, NotFound} => err' = e /\ d' = d /\ remote' = remote]_vars

\* A Delete of an object that is already gone.
C3_Witness ==
    /\ IPRange /\ op = "Delete"
    /\ calls = <<Call("delete", NotFound)>>
    /\ err = Nil /\ d.id = <<>> /\ remote.nextID > 1

(* ------------------------------- C4 ----------------------------------- *)

\* The change an IP range Update makes to one reference of the object:
\* when the configuration leaves the attribute out the payload does not
\* carry it (`sent` is nil) and the object keeps what it had, and the
\* reference is removed only when the configuration gives the attribute empty.
RefFrame(attr, sent, old, new) ==
    /\ attr = <<>> => sent = <<>> /\ new = old
    /\ (old # <<>> /\ new = <<>>) => attr = <<0>>

\* C4: an IP range Update whose update call succeeds leaves the object's
\* tenant, role and VRF as they were for every one of tenant_id, role_id,
\* vrf_id the configuration leaves out, and removes one only if the
\* configuration gives the attribute empty.
C4_UpdateKeepsOmittedRefs ==
    [][(IPRange /\ op' = "Update" /\ calls'[1].err = Nil
          /\ Exists(remote', ParseInt(d.id))) =>
          LET old == Object(remote, ParseInt(d.id))
              new == Object(remote', ParseInt(d.id))
              data == IPRangeUpdateData(IPRangePlan(d.id, cfg'))
          IN /\ RefFrame(cfg'.tenant_id, data.Tenant, old.Tenant, new.Tenant)
             /\ RefFrame(cfg'.role_id, data.Role, old.Role, new.Role)
             /\ RefFrame(cfg'.vrf_id, data.Vrf, old.Vrf, new.Vrf)]_vars

\* An Update without tenant_id, role_id and vrf_id on an object that has all three.
C4_Witness ==
    /\ IPRange /\ op = "Update" /\ err = Nil /\ d.id # <<>>
    /\ cfg.tenant_id = <<>> /\ cfg.role_id = <<>> /\ cfg.vrf_id = <<>>
    /\ Exists(remote, ParseInt(d.id))
    /\ Object(remote, ParseInt(d.id)).Tenant = <<1>>
    /\ Object(remote, ParseInt(d.id)).Role = <<1>>
    /\ Object(remote, ParseInt(d.id)).Vrf = <<1>>

(* ------------------------------- C5 ----------------------------------- *)

\* The stored record after a successful Create (its Read included) against
\* the configuration it was created from.
IPRangeStoredAsGiven ==
    /\ d.start_address = cfg.start_address
    /\ d.end_address = cfg.end_address
    /\ d.status = Given(cfg.status, "active")
    /\ Kept(cfg.tenant_id, d.tenant_id)
    /\ Kept(cfg.role_id, d.role_id)
    /\ Kept(cfg.vrf_id, d.vrf_id)
    /\ Kept(cfg.description, d.description)
    /\ Kept(cfg.comments, d.comments)

DeviceTypeStoredAsGiven ==
    /\ d.model = cfg.model
    /\ d.manufacturer_id = cfg.manufacturer_id
    /\ Kept(cfg.slug, d.slug)
    /\ Kept(cfg.part_number, d.part_number)
    /\ Kept(cfg.u_height, d.u_height)
    /\ Kept(cfg.is_full_depth, d.is_full_depth)

CreateSucceeded == op = "Create" /\ err = Nil /\ d.id # <<>>

\* C5: after a successful Create and its Read the stored record equals the
\* configuration on every required attribute and every optional attribute
\* the configuration gives, for both resources, and an IP range created
\* without status is stored with status "active".
C5_CreateReadRoundTrip ==
    /\ (IPRange /\ CreateSucceeded) => IPRangeStoredAsGiven
    /\ (DeviceType /\ CreateSucceeded) => DeviceTypeStoredAsGiven

(* ------------------------------- C6 ----------------------------------- *)

\* The call a handler ended on failed, and the handler reports it: every
\* error but a 404 answer to a read call, which Read takes as "gone" (C2).
Reported(c) == c.err # Nil /\ ~(c.call = "read" /\ c.err = NotFound)

C6_WitnessDeviceType ==
    /\ DeviceType /\ op = "Create"
    /\ calls = <<Call("create", Nil), Call("read", Default(500))>>
    /\ err = Default(500) /\ d.id = <<"1">> /\ Exists(remote, 1)

(* ------------------------------- C7 ----------------------------------- *)

\* The identifier becomes non-empty only in Create, as the identifier the
\* create call returned, and a failed create call leaves it empty.
AssignedByCreate ==
    /\ (d'.id # <<>> /\ d'.id # d.id) =>
           op' = "Create" /\ calls'[1].err = Nil /\ d'.id = FormatInt(remote.nextID)
    /\ (op' = "Create" /\ calls'[1].err # Nil) => d'.id = <<>>

\* C7 as stated: the identifier becomes non-empty only in Create, with the
\* identifier the create call returned; Read, Update and Delete never
\* change it; a failed create call leaves it empty.
C7_IdNeverMutated ==
    [][Adapter =>
          /\ AssignedByCreate
          /\ op' \in {"Read", "Update", "Delete"} => d'.id = d.id]_vars

\* C7 amended: the identifier becomes non-empty only in Create, with the
\* identifier the create call returned; Read, Update and Delete never
\* replace it by another identifier: they leave it as it is or, when NetBox
\* answers 404 to their read or delete call, empty it; a failed create call
\* leaves it empty.
C7_IdAssignedOnceOrEmptied ==
    [][Adapter =>
          /\ AssignedByCreate
          /\ op' \in {"Read", "Update", "Delete"} =>
                \/ d'.id = d.id
                \/ /\ d'.id = <<>>
                   /\ Last(calls').err = NotFound
                   /\ Last(calls').call \in {"read", "delete"}]_vars

\* An Update whose read call found the object gone emptied the identifier.
C7_Witness ==
    /\ DeviceType /\ op = "Update"
    /\ calls = <<Call("update", Nil), Call("read", NotFound)>>
    /\ err = Nil /\ d.id = <<>>

(* ------------------------------- C8 ----------------------------------- *)

\* A handler stops at the first call that fails: every call before the last
\* succeeded, a returned error is the last call's, and no call is repeated.
StopsAtFirstFailure ==
    /\ \A i \in 1..(Len(calls) - 1) : calls[i].err = Nil
    /\ err # Nil => calls # <<>> /\ err = Last(calls).err
    /\ \A i, j \in 1..Len(calls) : calls[i].call = calls[j].call => i = j

RefID(p) == IF p = <<>> THEN 0 ELSE p[1]

\* C9: after a successful Read of an IP range that found the object, every
\* stored field is the object's value, and tenant_id, role_id, vrf_id are
\* unset when the object has no tenant, role, VRF.
C9_ReadMirrorsRemote ==
    (IPRange /\ op = "Read" /\ err = Nil /\ d.id # <<>>) =>
        LET o == Object(remote, ParseInt(d.id)) IN
        /\ d.start_address = o.StartAddress[1]
        /\ d.end_address = o.EndAddress[1]
        /\ d.status = o.Status[1]
        /\ d.description = o.Description
        /\ d.comments = o.Comments
        /\ d.tenant_id = RefID(o.Tenant)
        /\ d.role_id = RefID(o.Role)
        /\ d.vrf_id = RefID(o.Vrf)

(* ------------------------------- C10 ---------------------------------- *)

\* A group has every attribute the filter gives.
MatchesFilter(g, f) ==
    /\ f.name # "" => g.Name = f.name
    /\ f.slug # "" => g.Slug = f.slug
    /\ f.scope_type # "" => g.ScopeType = f.scope_type
    /\ f.scope_id # 0 => g.ScopeID = f.scope_id

Wanted == {i \in IDs : Exists(remote, i) /\ MatchesFilter(Object(remote, i), cfg)}

\* C10: the list query of a lookup applies every attribute the filter
\* gives (name, slug, scope_type, scope_id), so the group a lookup returns
\* has all of them, a filter that one group alone satisfies finds that
\* group, also when another group differs from it in scope_id only, and
\* the query's limit is 2.
C10_FilterApplied ==
    (op = "Lookup" /\ calls[1].err = Nil) =>
        /\ VlanGroupListParams(VlanGroupPlan(cfg)).Limit = <<2>>
        /\ err = Nil => ParseInt(d.id) \in Wanted
        /\ Cardinality(Wanted) = 1 => err = Nil /\ ParseInt(d.id) \in Wanted

====
